---- MODULE Spec2Model ----
(***************************************************************************)
(* StationManager (src/StationManager.cpp): an ordered registry of kitchen *)
(* stations, a backup ingredient pool, a FIFO dish queue and the dispatch  *)
(* pass processAllDishes.                                                  *)
(*                                                                         *)
(* Stations and dishes are caller-owned objects; the manager holds         *)
(* pointers.  A station object is modelled by its identity (s1, s2, ...),  *)
(* its name, its assigned dishes and its ingredient stock.  Ingredient     *)
(* records keep name, quantity and required_quantity; the price field is   *)
(* carried by the code but never read by any decision and is left out.     *)
(***************************************************************************)
EXTENDS Integers, Sequences, FiniteSets, Bags, TLC

VARIABLES
    registry,            \* the LinkedList<KitchenStation*> items, front first
    dishes,              \* dishes[s]: the Dish* vector of station object s
    stock,               \* stock[s]: the ingredient stock vector of station s
    backup_ingredients_, \* std::vector<Ingredient>
    dish_queue_,         \* std::queue<Dish*>, front first
    last,                \* the last completed call: operation, arguments, result
    pc,                  \* "idle", or the position inside processAllDishes
    frame,               \* the locals of the running processAllDishes call
    grown                \* successful calls so far that added to a station's contents

vars == <<registry, dishes, stock, backup_ingredients_, dish_queue_, last, pc, frame,
          grown>>

(***************************************************************************)
(* Bounds of the model.                                                    *)
(***************************************************************************)
MaxStations == 3   \* registry length at which addStation is no longer called
MaxQueue == 3      \* queue length at which addDishToQueue is no longer called
MaxQty == 2        \* largest quantity a pool record may be raised to
MaxGrow == 2       \* successful merges and withdrawals after which neither is called

(***************************************************************************)
(* The objects the caller owns.                                            *)
(***************************************************************************)
nullptr == "nullptr"

StationObjects == {"s1", "s2", "s3"}

\* A further station object that carries the name of s1; addStation registers
\* it like any other (the dispatch scenario does).
TwinObjects == {"s4"}

getName(station) ==
    CASE station = "s1" -> "Grill Station"
      [] station = "s2" -> "Oven Station"
      [] station = "s3" -> "Pasta Station"
      [] station = "s4" -> "Grill Station"

StationNames == {getName(s) : s \in StationObjects}

IngredientNames == {"Chicken", "Spices"}

Ingredient(n, q, r) == [name |-> n, quantity |-> q, required_quantity |-> r]

DishObjects == {"d1", "d2"}

\* The dish of the worked example: a "Grilled Chicken" that needs Chicken only.
ExampleDish == "d3"

dishName(dish) ==
    CASE dish = "d1" -> "Grilled Chicken"
      [] dish = "d2" -> "Spice Rub"
      [] dish = "d3" -> "Grilled Chicken"

getIngredients(dish) ==
    CASE dish = "d1" -> <<Ingredient("Chicken", 0, 1), Ingredient("Spices", 0, 1)>>
      [] dish = "d2" -> <<Ingredient("Spices", 0, 2)>>
      [] dish = "d3" -> <<Ingredient("Chicken", 0, 1)>>

(***************************************************************************)
(* Sequence helpers.                                                       *)
(***************************************************************************)
Range(seq) == {seq[i] : i \in 1..Len(seq)}

RemoveAt(seq, i) == SubSeq(seq, 1, i - 1) \o SubSeq(seq, i + 1, Len(seq))

RECURSIVE SeqToBag(_)
SeqToBag(seq) ==
    IF seq = <<>> THEN EmptyBag
    ELSE SetToBag({Head(seq)}) (+) SeqToBag(Tail(seq))

RECURSIVE QtyOf(_, _)
\* total quantity held under ingredient name n in a record vector
QtyOf(seq, n) ==
    IF seq = <<>> THEN 0
    ELSE (IF Head(seq).name = n THEN Head(seq).quantity ELSE 0) + QtyOf(Tail(seq), n)

NamesOf(seq) == [i \in 1..Len(seq) |-> seq[i].name]

NoRepeat(seq) == \A i, j \in 1..Len(seq) : seq[i] = seq[j] => i = j

(***************************************************************************)
(* LinkedList<KitchenStation*>: position-addressed insert and remove       *)
(* (positions are zero-based, as in the callers).                          *)
(***************************************************************************)
insert(list, position, new_element) ==
    IF position >= 0 /\ position <= Len(list)
    THEN [list |-> SubSeq(list, 1, position) \o <<new_element>>
                      \o SubSeq(list, position + 1, Len(list)),
          ret |-> TRUE]
    ELSE [list |-> list, ret |-> FALSE]

remove(list, position) ==
    IF position >= 0 /\ position < Len(list)
    THEN [list |-> RemoveAt(list, position + 1), ret |-> TRUE]
    ELSE [list |-> list, ret |-> FALSE]

(***************************************************************************)
(* KitchenStation collaborator.                                            *)
(***************************************************************************)
\* assign(item): duplicates permitted
stationAssignDish(dish_vector, dish) == Append(dish_vector, dish)

\* Mutant: the station accepts the record and credits nothing.
replenishStationIngredients_creditsNothing(stock_vector, ingredient) == stock_vector

\* creditStock(record): add the quantity to the record of that name,
\* create the record when the name is absent
replenishStationIngredients(stock_vector, ingredient) ==
    IF \E i \in 1..Len(stock_vector) : stock_vector[i].name = ingredient.name
    THEN LET i == CHOOSE k \in 1..Len(stock_vector) :
                      /\ stock_vector[k].name = ingredient.name
                      /\ \A j \in 1..(k - 1) : stock_vector[j].name # ingredient.name
         IN [stock_vector EXCEPT ![i].quantity = @ + ingredient.quantity]
    ELSE Append(stock_vector, ingredient)


\* Position (from 1) of the first record named n, 0 when there is none.
FirstNamed(records, n) ==
    IF \E i \in 1..Len(records) : records[i].name = n
    THEN CHOOSE i \in 1..Len(records) :
             /\ records[i].name = n
             /\ \A j \in 1..(i - 1) : records[j].name # n
    ELSE 0

\* On-hand quantity of ingredient n in a stock vector: the first record of that
\* name, 0 when there is none.
OnHand(stock_vector, n) ==
    IF FirstNamed(stock_vector, n) = 0 THEN 0
    ELSE stock_vector[FirstNamed(stock_vector, n)].quantity

\* The station's own dish of that name (the first assigned), nullptr when none.
assignedDish(dish_vector, dish_name) ==
    IF \E i \in 1..Len(dish_vector) : dishName(dish_vector[i]) = dish_name
    THEN dish_vector[CHOOSE i \in 1..Len(dish_vector) :
                         /\ dishName(dish_vector[i]) = dish_name
                         /\ \A j \in 1..(i - 1) : dishName(dish_vector[j]) # dish_name]
    ELSE nullptr

\* canProduce(itemName): the stock covers every requirement of the assigned dish
canCompleteOrder(dish_vector, stock_vector, dish_name) ==
    LET d == assignedDish(dish_vector, dish_name)
    IN /\ d # nullptr
       /\ \A i \in 1..Len(getIngredients(d)) :
            OnHand(stock_vector, getIngredients(d)[i].name)
              >= getIngredients(d)[i].required_quantity

RECURSIVE Consume(_, _)
Consume(stock_vector, required) ==
    IF required = <<>> THEN stock_vector
    ELSE LET i == FirstNamed(stock_vector, Head(required).name)
         IN Consume(IF i = 0 THEN stock_vector
                    ELSE [stock_vector EXCEPT ![i].quantity =
                              @ - Head(required).required_quantity],
                    Tail(required))

\* produce(itemName): the results the station may give.  On true the required
\* quantities have been consumed from its stock, on false the stock is as it
\* was.  A station that cannot complete the order never produces; one that can
\* may still fail.
prepareDish(dish_vector, stock_vector, dish_name) ==
    IF canCompleteOrder(dish_vector, stock_vector, dish_name)
    THEN { [stock |-> Consume(stock_vector,
                              getIngredients(assignedDish(dish_vector, dish_name))),
            ret |-> TRUE],
           [stock |-> stock_vector, ret |-> FALSE] }
    ELSE { [stock |-> stock_vector, ret |-> FALSE] }

(***************************************************************************)
(* Registry operations.                                                    *)
(***************************************************************************)
addStation(reg, station) == insert(reg, Len(reg), station)

getStationIndex(reg, name) ==
    IF \E i \in 1..Len(reg) : getName(reg[i]) = name
    THEN (CHOOSE i \in 1..Len(reg) :
              /\ getName(reg[i]) = name
              /\ \A j \in 1..(i - 1) : getName(reg[j]) # name) - 1
    ELSE -1

findStation(reg, station_name) ==
    IF getStationIndex(reg, station_name) = -1 THEN nullptr
    ELSE reg[getStationIndex(reg, station_name) + 1]

removeStation(reg, station_name) ==
    IF \E i \in 0..(Len(reg) - 1) : getName(reg[i + 1]) = station_name
    THEN remove(reg, CHOOSE i \in 0..(Len(reg) - 1) :
                         /\ getName(reg[i + 1]) = station_name
                         /\ \A j \in 0..(i - 1) : getName(reg[j + 1]) # station_name)
    ELSE [list |-> reg, ret |-> FALSE]

\* Mutant: the early return for a station already at the front is missing and
\* the move falls out of the loop to the final "return false".
moveStationToFront_fallsThrough(reg, station_name) ==
    IF findStation(reg, station_name) = nullptr THEN [list |-> reg, ret |-> FALSE]
    ELSE IF getName(reg[1]) = station_name THEN [list |-> reg, ret |-> TRUE]
    ELSE LET pos == getStationIndex(reg, station_name)
             station == reg[pos + 1]
         IN [list |-> insert(remove(reg, pos).list, 0, station).list, ret |-> FALSE]

\* Mutant: the station is exchanged with the front station instead of being
\* removed and reinserted.
moveStationToFront_swap(reg, station_name) ==
    IF findStation(reg, station_name) = nullptr THEN [list |-> reg, ret |-> FALSE]
    ELSE LET pos == getStationIndex(reg, station_name)
         IN [list |-> [reg EXCEPT ![1] = reg[pos + 1], ![pos + 1] = reg[1]],
             ret |-> TRUE]

moveStationToFront(reg, station_name) ==
    IF findStation(reg, station_name) = nullptr THEN [list |-> reg, ret |-> FALSE]
    ELSE IF getName(reg[1]) = station_name THEN [list |-> reg, ret |-> TRUE]
    ELSE LET pos == getStationIndex(reg, station_name)
             station == reg[pos + 1]
         IN [list |-> insert(remove(reg, pos).list, 0, station).list, ret |-> TRUE]

RECURSIVE AssignAll(_, _)
AssignAll(dish_vector, from) ==
    IF from = <<>> THEN dish_vector
    ELSE AssignAll(stationAssignDish(dish_vector, Head(from)), Tail(from))

RECURSIVE ReplenishAll(_, _)
ReplenishAll(stock_vector, from) ==
    IF from = <<>> THEN stock_vector
    ELSE ReplenishAll(replenishStationIngredients(stock_vector, Head(from)), Tail(from))

\* Mutant: removeStation(station_name2) is called outside the null check.
mergeStations_removeOutsideIf(reg, dsh, stk, station_name1, station_name2) ==
    LET station1 == findStation(reg, station_name1)
        station2 == findStation(reg, station_name2)
    IN IF station1 # nullptr /\ station2 # nullptr
       THEN [list |-> removeStation(reg, station_name2).list,
             dishes |-> [dsh EXCEPT ![station1] = AssignAll(@, dsh[station2])],
             stock |-> [stk EXCEPT ![station1] = ReplenishAll(@, stk[station2])],
             ret |-> TRUE]
       ELSE [list |-> removeStation(reg, station_name2).list,
             dishes |-> dsh, stock |-> stk, ret |-> FALSE]

\* Mutant: station_name1 is removed instead of station_name2.
mergeStations_removesFirst(reg, dsh, stk, station_name1, station_name2) ==
    LET station1 == findStation(reg, station_name1)
        station2 == findStation(reg, station_name2)
    IN IF station1 # nullptr /\ station2 # nullptr
       THEN [list |-> removeStation(reg, station_name1).list,
             dishes |-> [dsh EXCEPT ![station1] = AssignAll(@, dsh[station2])],
             stock |-> [stk EXCEPT ![station1] = ReplenishAll(@, stk[station2])],
             ret |-> TRUE]
       ELSE [list |-> reg, dishes |-> dsh, stock |-> stk, ret |-> FALSE]

mergeStations(reg, dsh, stk, station_name1, station_name2) ==
    LET station1 == findStation(reg, station_name1)
        station2 == findStation(reg, station_name2)
    IN IF station1 # nullptr /\ station2 # nullptr
       THEN [list |-> removeStation(reg, station_name2).list,
             dishes |-> [dsh EXCEPT ![station1] = AssignAll(@, dsh[station2])],
             stock |-> [stk EXCEPT ![station1] = ReplenishAll(@, stk[station2])],
             ret |-> TRUE]
       ELSE [list |-> reg, dishes |-> dsh, stock |-> stk, ret |-> FALSE]

(***************************************************************************)
(* Backup ingredient pool.                                                 *)
(***************************************************************************)
\* Mutant: the pool record is not decremented.
replenishStationIngredientFromBackup_noDecrement(reg, stk, pool, station_name, ingredient_name, quantity) ==
    LET station == findStation(reg, station_name)
        it == FirstNamed(pool, ingredient_name)
    IN IF quantity <= 0 \/ station = nullptr \/ it = 0
       THEN [stock |-> stk, backup |-> pool, ret |-> FALSE]
       ELSE IF pool[it].quantity >= quantity
       THEN [stock |-> [stk EXCEPT ![station] = replenishStationIngredients(
                            @, Ingredient(ingredient_name, quantity, 0))],
             backup |-> pool, ret |-> TRUE]
       ELSE [stock |-> stk, backup |-> pool, ret |-> FALSE]

\* Mutant: the station is credited before the pool quantity is compared.
replenishStationIngredientFromBackup_creditFirst(reg, stk, pool, station_name, ingredient_name, quantity) ==
    LET station == findStation(reg, station_name)
        it == FirstNamed(pool, ingredient_name)
        credited == [stk EXCEPT ![station] = replenishStationIngredients(
                         @, Ingredient(ingredient_name, quantity, 0))]
    IN IF quantity <= 0 \/ station = nullptr \/ it = 0
       THEN [stock |-> stk, backup |-> pool, ret |-> FALSE]
       ELSE IF pool[it].quantity >= quantity
       THEN [stock |-> credited,
             backup |-> IF pool[it].quantity - quantity = 0
                        THEN RemoveAt(pool, it)
                        ELSE [pool EXCEPT ![it].quantity = @ - quantity],
             ret |-> TRUE]
       ELSE [stock |-> credited, backup |-> pool, ret |-> FALSE]

\* Mutant: the comparison is > instead of >=.
replenishStationIngredientFromBackup_strict(reg, stk, pool, station_name, ingredient_name, quantity) ==
    LET station == findStation(reg, station_name)
        it == FirstNamed(pool, ingredient_name)
    IN IF quantity <= 0 \/ station = nullptr \/ it = 0
       THEN [stock |-> stk, backup |-> pool, ret |-> FALSE]
       ELSE IF pool[it].quantity > quantity
       THEN [stock |-> [stk EXCEPT ![station] = replenishStationIngredients(
                            @, Ingredient(ingredient_name, quantity, 0))],
             backup |-> [pool EXCEPT ![it].quantity = @ - quantity],
             ret |-> TRUE]
       ELSE [stock |-> stk, backup |-> pool, ret |-> FALSE]

replenishStationIngredientFromBackup(reg, stk, pool, station_name, ingredient_name, quantity) ==
    LET station == findStation(reg, station_name)
        it == FirstNamed(pool, ingredient_name)
    IN IF quantity <= 0 THEN [stock |-> stk, backup |-> pool, ret |-> FALSE]
       ELSE IF station = nullptr THEN [stock |-> stk, backup |-> pool, ret |-> FALSE]
       ELSE IF it = 0 THEN [stock |-> stk, backup |-> pool, ret |-> FALSE]
       ELSE IF pool[it].quantity >= quantity
       THEN [stock |-> [stk EXCEPT ![station] = replenishStationIngredients(
                            @, Ingredient(ingredient_name, quantity, 0))],
             backup |-> IF pool[it].quantity - quantity = 0
                        THEN RemoveAt(pool, it)
                        ELSE [pool EXCEPT ![it].quantity = @ - quantity],
             ret |-> TRUE]
       ELSE [stock |-> stk, backup |-> pool, ret |-> FALSE]

addBackupIngredients(ingredients) == [backup |-> ingredients, ret |-> TRUE]

addBackupIngredient(pool, ingredient) ==
    LET it == FirstNamed(pool, ingredient.name)
    IN IF it # 0
       THEN [backup |-> [pool EXCEPT ![it].quantity = @ + ingredient.quantity],
             ret |-> TRUE]
       ELSE [backup |-> Append(pool, ingredient), ret |-> TRUE]

clearBackupIngredients == <<>>

(***************************************************************************)
(* State after construction: an empty manager; the caller's station        *)
(* objects already carry assignments and stock.                            *)
(***************************************************************************)
\* The record of a completed call: operation, arguments, result, the structure
\* the call works on as it was before the call, for processAllDishes whether
\* each dish handled so far was prepared, for moveStationToFront whether the
\* call repeats the previous one, and for processAllDishes whether the call
\* directly follows a processAllDishes call in which every station kept to its
\* contract.  honest turns false when a prepareDish call returns false at a
\* station that can complete the order.
Call(op, s, t, q, ret, pre) ==
    [op |-> op, s |-> s, t |-> t, q |-> q, ret |-> ret, pre |-> pre, resolved |-> <<>>,
     again |-> \/ op = "moveStationToFront" /\ last.op = op /\ last.s = s
               \/ op = "processAllDishes" /\ last.op = op /\ last.honest,
     honest |-> TRUE]

\* Locals of processAllDishes: temp_queue, dish, station_node (position in the
\* registry from 1, past the end for nullptr), the position in the dish's
\* ingredient list, dish_prepared.  Two more fields record the walk of the
\* current dish: walk0 is every stock and the pool as they were when the dish
\* was taken, trace has one entry per station visited so far (see Visit).
NoFrame == [temp_queue |-> <<>>, dish |-> nullptr, station_node |-> 0,
            ingredient |-> 0, dish_prepared |-> FALSE,
            walk0 |-> <<>>, trace |-> <<>>]

\* The trace entry of one visit: the station, the answers of the assignment
\* check and of canCompleteOrder, the station's stock and the pool when the
\* visit began, the replenishStationIngredientFromBackup calls made (ingredient,
\* quantity, result) and the results of the prepareDish calls made.
Visit(station, assigned, can, stock_vector, pool) ==
    [station |-> station, assigned |-> assigned, can |-> can,
     stock0 |-> stock_vector, backup0 |-> pool,
     withdrawals |-> <<>>, prepares |-> <<>>]

\* The trace with one more withdrawal, or one more prepareDish result, in the
\* entry of the visit under way.
Withdrew(trace, name, quantity, ret) ==
    [trace EXCEPT ![Len(trace)].withdrawals =
        Append(@, [name |-> name, quantity |-> quantity, ret |-> ret])]

Prepared(trace, ret) == [trace EXCEPT ![Len(trace)].prepares = Append(@, ret)]

\* The station objects as the caller built them before registering them.
InitRegistryStations ==
    { [dishes |-> [s \in StationObjects |->
                     CASE s = "s1" -> <<"d1">>
                       [] s = "s2" -> <<"d1">>
                       [] s = "s3" -> <<>>],
       stock |-> [s \in StationObjects |->
                     CASE s = "s1" -> <<Ingredient("Chicken", 1, 0)>>
                       [] s = "s2" -> <<Ingredient("Spices", 1, 0), Ingredient("Chicken", 1, 0)>>
                       [] s = "s3" -> <<>>]] }

InitManager ==
    /\ registry = <<>>
    /\ backup_ingredients_ = <<>>
    /\ dish_queue_ = <<>>
    /\ last = [op |-> "StationManager", s |-> "", t |-> "", q |-> 0, ret |-> TRUE,
               pre |-> <<>>, resolved |-> <<>>, again |-> FALSE, honest |-> TRUE]
    /\ pc = "idle"
    /\ frame = NoFrame
    /\ grown = 0

InitRegistry ==
    /\ InitManager
    /\ \E k \in InitRegistryStations : dishes = k.dishes /\ stock = k.stock

(***************************************************************************)
(* Registry actions.                                                       *)
(***************************************************************************)
AddStation(station) ==
    /\ pc = "idle"
    /\ Len(registry) < MaxStations
    /\ registry' = addStation(registry, station).list
    /\ last' = Call("addStation", getName(station), "", 0, addStation(registry, station).ret,
                    registry)
    /\ UNCHANGED <<dishes, stock, backup_ingredients_, dish_queue_, pc, frame, grown>>

RemoveStation(station_name) ==
    /\ pc = "idle"
    /\ registry' = removeStation(registry, station_name).list
    /\ last' = Call("removeStation", station_name, "", 0,
                    removeStation(registry, station_name).ret, registry)
    /\ UNCHANGED <<dishes, stock, backup_ingredients_, dish_queue_, pc, frame, grown>>

MoveStationToFront(station_name) ==
    /\ pc = "idle"
    /\ registry' = moveStationToFront(registry, station_name).list
    /\ last' = Call("moveStationToFront", station_name, "", 0,
                    moveStationToFront(registry, station_name).ret, registry)
    /\ UNCHANGED <<dishes, stock, backup_ingredients_, dish_queue_, pc, frame, grown>>

MergeStations(station_name1, station_name2) ==
    LET r == mergeStations(registry, dishes, stock, station_name1, station_name2)
    IN /\ pc = "idle"
       /\ grown < MaxGrow
       /\ grown' = IF r.ret THEN grown + 1 ELSE grown
       /\ registry' = r.list
       /\ dishes' = r.dishes
       /\ stock' = r.stock
       /\ last' = Call("mergeStations", station_name1, station_name2, 0, r.ret, registry)
       /\ UNCHANGED <<backup_ingredients_, dish_queue_, pc, frame>>

NextRegistry ==
    \/ \E s \in StationObjects : AddStation(s)
    \/ \E n \in StationNames : RemoveStation(n)
    \/ \E n \in StationNames : MoveStationToFront(n)
    \/ \E n1, n2 \in StationNames : MergeStations(n1, n2)

SpecRegistry == InitRegistry /\ [][NextRegistry]_vars

(***************************************************************************)
(* Backup pool actions.  The manager is set up as in main.cpp: two         *)
(* stations registered; "Pasta Station" is never registered here.          *)
(***************************************************************************)
InitPoolStations ==
    { [dishes |-> [s \in StationObjects |->
                     CASE s = "s1" -> <<"d1">>
                       [] s = "s2" -> <<"d1", "d2">>
                       [] s = "s3" -> <<>>],
       stock |-> [s \in StationObjects |->
                     CASE s = "s1" -> <<>>
                       [] s = "s2" -> <<Ingredient("Chicken", 1, 0)>>
                       [] s = "s3" -> <<>>]] }

InitBackup ==
    /\ registry = <<"s1", "s2">>
    /\ backup_ingredients_ = <<>>
    /\ dish_queue_ = <<>>
    /\ last = [op |-> "addStation", s |-> getName("s2"), t |-> "", q |-> 0, ret |-> TRUE,
               pre |-> <<"s1">>, resolved |-> <<>>, again |-> FALSE, honest |-> TRUE]
    /\ pc = "idle"
    /\ frame = NoFrame
    /\ grown = 0
    /\ \E k \in InitPoolStations : dishes = k.dishes /\ stock = k.stock

\* The vectors addBackupIngredients is called with.
BulkIngredients ==
    { <<>>,
      <<Ingredient("Chicken", 2, 0), Ingredient("Spices", 1, 0)>>,
      <<Ingredient("Chicken", 1, 0), Ingredient("Chicken", 0, 0)>> }

AddQuantities == {0, 1}

ReplenishQuantities == 0..MaxQty

AddBackupIngredients(ingredients) ==
    /\ pc = "idle"
    /\ backup_ingredients_' = addBackupIngredients(ingredients).backup
    /\ last' = Call("addBackupIngredients", "", "", Len(ingredients),
                    addBackupIngredients(ingredients).ret, backup_ingredients_)
    /\ UNCHANGED <<registry, dishes, stock, dish_queue_, pc, frame, grown>>

AddBackupIngredient(ingredient) ==
    LET r == addBackupIngredient(backup_ingredients_, ingredient)
    IN /\ pc = "idle"
       /\ QtyOf(r.backup, ingredient.name) <= MaxQty
       /\ backup_ingredients_' = r.backup
       /\ last' = Call("addBackupIngredient", "", ingredient.name, ingredient.quantity,
                       r.ret, backup_ingredients_)
       /\ UNCHANGED <<registry, dishes, stock, dish_queue_, pc, frame, grown>>

ClearBackupIngredients ==
    /\ pc = "idle"
    /\ backup_ingredients_' = clearBackupIngredients
    /\ last' = Call("clearBackupIngredients", "", "", 0, TRUE, backup_ingredients_)
    /\ UNCHANGED <<registry, dishes, stock, dish_queue_, pc, frame, grown>>

ReplenishStationIngredientFromBackup(station_name, ingredient_name, quantity) ==
    LET r == replenishStationIngredientFromBackup(registry, stock, backup_ingredients_,
                                                  station_name, ingredient_name, quantity)
    IN /\ pc = "idle"
       /\ grown < MaxGrow
       /\ grown' = IF r.ret THEN grown + 1 ELSE grown
       /\ stock' = r.stock
       /\ backup_ingredients_' = r.backup
       /\ last' = Call("replenishStationIngredientFromBackup", station_name,
                       ingredient_name, quantity, r.ret, backup_ingredients_)
       /\ UNCHANGED <<registry, dishes, dish_queue_, pc, frame>>

NextBackup ==
    \/ \E v \in BulkIngredients : AddBackupIngredients(v)
    \/ \E n \in IngredientNames, q \in AddQuantities :
          AddBackupIngredient(Ingredient(n, q, 0))
    \/ ClearBackupIngredients
    \/ \E sn \in StationNames, n \in IngredientNames, q \in ReplenishQuantities :
          ReplenishStationIngredientFromBackup(sn, n, q)

SpecBackup == InitBackup /\ [][NextBackup]_vars

(***************************************************************************)
(* Dish queue and dispatch.  processAllDishes runs as a sequence of steps  *)
(* (pc, frame); no other operation runs while it is under way.             *)
(***************************************************************************)
\* Mutant: the null check is missing.
addDishToQueue_noGuard(queue, dish) == Append(queue, dish)

\* Mutant: the dish is put at the front.
addDishToQueue_pushFront(queue, dish) ==
    IF dish # nullptr THEN <<dish>> \o queue ELSE queue

addDishToQueue(queue, dish) ==
    IF dish # nullptr THEN Append(queue, dish) ELSE queue

\* The DietaryRequest values the second overload is called with.
DietaryRequests == {"vegetarian"}

\* TestDish::dietaryAccommodations (main.cpp): the dish is left as it is.
dietaryAccommodations(dish, request) == dish

\* addDishToQueue(Dish*, const DietaryRequest&)
addDishToQueueRequest(queue, dish, request) ==
    IF dish # nullptr THEN Append(queue, dietaryAccommodations(dish, request)) ELSE queue

\* lines 196-206: the stations from position k on (from 1) are asked in turn;
\* the first that can complete the order and then prepares the dish ends the
\* walk.  The result is the set of outcomes the stations may give: the stock,
\* the position of the station that prepared the dish (0 when none did).
RECURSIVE prepareWalk(_, _, _, _, _)
prepareWalk(reg, dsh, stk, dish_name, k) ==
    IF k > Len(reg) THEN { [stock |-> stk, at |-> 0] }
    ELSE IF canCompleteOrder(dsh[reg[k]], stk[reg[k]], dish_name)
    THEN UNION { IF r.ret
                 THEN { [stock |-> [stk EXCEPT ![reg[k]] = r.stock], at |-> k] }
                 ELSE prepareWalk(reg, dsh, [stk EXCEPT ![reg[k]] = r.stock],
                                  dish_name, k + 1)
                 : r \in prepareDish(dsh[reg[k]], stk[reg[k]], dish_name) }
    ELSE prepareWalk(reg, dsh, stk, dish_name, k + 1)

\* Mutant: the front dish is popped before the stations are asked.
prepareNextDish_popsFirst(reg, dsh, stk, queue) ==
    IF queue # <<>>
    THEN { [stock |-> w.stock, queue |-> Tail(queue), at |-> w.at, ret |-> w.at # 0]
           : w \in prepareWalk(reg, dsh, stk, dishName(Head(queue)), 1) }
    ELSE { [stock |-> stk, queue |-> queue, at |-> 0, ret |-> FALSE] }

\* The outcomes of one prepareNextDish call.
prepareNextDish(reg, dsh, stk, queue) ==
    IF queue # <<>>
    THEN { [stock |-> w.stock, queue |-> IF w.at # 0 THEN Tail(queue) ELSE queue,
            at |-> w.at, ret |-> w.at # 0]
           : w \in prepareWalk(reg, dsh, stk, dishName(Head(queue)), 1) }
    ELSE { [stock |-> stk, queue |-> queue, at |-> 0, ret |-> FALSE] }

\* Mutant: an unprepared dish is put in front of the dishes kept so far.
requeue_inFront(temp_queue, dish, dish_prepared) ==
    IF ~dish_prepared THEN <<dish>> \o temp_queue ELSE temp_queue

\* Mutant: the dish is kept whether or not it was prepared.
requeue_always(temp_queue, dish, dish_prepared) == Append(temp_queue, dish)

\* lines 503-506: a dish no station prepared goes to the back of temp_queue
requeue(temp_queue, dish, dish_prepared) ==
    IF ~dish_prepared THEN Append(temp_queue, dish) ELSE temp_queue

\* Mutant: the walk starts at the second station.
getHeadNode_second(reg) == 2

\* line 435: the walk starts at the head node (position 1; with an empty
\* registry that is already past the end)
getHeadNode(reg) == 1

\* Mutant: the walk does not advance.
getNext_stay(station_node) == station_node

\* lines 452, 500: the node after station_node
getNext(station_node) == station_node + 1

\* Mutant: every station counts as assigned.
dishAssigned_always(dish_vector, dish) == TRUE

\* lines 442-448: is a dish of that name assigned to the station
dishAssigned(dish_vector, dish) ==
    \E i \in 1..Len(dish_vector) : dishName(dish_vector[i]) = dishName(dish)

\* lines 467-477: what the station lacks of one ingredient of the dish
replenishQuantity(stock_vector, ingredient) ==
    ingredient.required_quantity - OnHand(stock_vector, ingredient.name)

InitDispatchStations ==
    { [dishes |-> [s \in StationObjects \cup TwinObjects |->
                     CASE s = "s1" -> <<"d1">>
                       [] s = "s2" -> <<"d1">>
                       [] s = "s3" -> <<"d2">>
                       [] s = "s4" -> <<"d2">>],
       stock |-> [s \in StationObjects \cup TwinObjects |->
                     CASE s = "s1" -> <<Ingredient("Chicken", 0, 0)>>
                       [] s = "s2" -> <<Ingredient("Chicken", 1, 0), Ingredient("Spices", 1, 0)>>
                       [] s = "s3" -> <<>>
                       [] s = "s4" -> <<Ingredient("Spices", 1, 0)>>]] }

\* The manager set up as in main.cpp: stations registered, dishes assigned.
\* The last station registered is the second one named "Grill Station".
InitDispatch ==
    /\ registry = <<"s1", "s2", "s3", "s4">>
    /\ backup_ingredients_ = <<>>
    /\ dish_queue_ = <<>>
    /\ last = [op |-> "addStation", s |-> getName("s4"), t |-> "", q |-> 0, ret |-> TRUE,
               pre |-> <<"s1", "s2", "s3">>, resolved |-> <<>>, again |-> FALSE, honest |-> TRUE]
    /\ pc = "idle"
    /\ frame = NoFrame
    /\ grown = 0
    /\ \E k \in InitDispatchStations : dishes = k.dishes /\ stock = k.stock

AddDishToQueue(dish) ==
    /\ pc = "idle"
    /\ Len(dish_queue_) < MaxQueue
    /\ dish_queue_' = addDishToQueue(dish_queue_, dish)
    /\ last' = Call("addDishToQueue", "", dish, 0, TRUE, dish_queue_)
    /\ UNCHANGED <<registry, dishes, stock, backup_ingredients_, pc, frame, grown>>

AddDishToQueueRequest(dish, request) ==
    /\ pc = "idle"
    /\ Len(dish_queue_) < MaxQueue
    /\ dish_queue_' = addDishToQueueRequest(dish_queue_, dish, request)
    /\ last' = Call("addDishToQueue", request, dish, 0, TRUE, dish_queue_)
    /\ UNCHANGED <<registry, dishes, stock, backup_ingredients_, pc, frame, grown>>

PrepareNextDish ==
    /\ pc = "idle"
    /\ \E r \in prepareNextDish(registry, dishes, stock, dish_queue_) :
          /\ stock' = r.stock
          /\ dish_queue_' = r.queue
          /\ last' = Call("prepareNextDish", "", "", r.at, r.ret, dish_queue_)
    /\ UNCHANGED <<registry, dishes, backup_ingredients_, pc, frame, grown>>

\* line 427: the call starts with an empty temp_queue
ProcessAllDishes ==
    /\ pc = "idle"
    /\ pc' = "dish"
    /\ frame' = NoFrame
    /\ last' = Call("processAllDishes", "", "", 0, TRUE, dish_queue_)
    /\ UNCHANGED <<registry, dishes, stock, backup_ingredients_, dish_queue_, grown>>

\* lines 429-436: take the front dish, start at the head node
TakeDish ==
    /\ pc = "dish"
    /\ dish_queue_ # <<>>
    /\ dish_queue_' = Tail(dish_queue_)
    /\ frame' = [frame EXCEPT !.dish = Head(dish_queue_),
                              !.station_node = getHeadNode(registry),
                              !.ingredient = 0, !.dish_prepared = FALSE,
                              !.walk0 = [stock |-> stock, backup |-> backup_ingredients_],
                              !.trace = <<>>]
    /\ pc' = "station"
    /\ UNCHANGED <<registry, dishes, stock, backup_ingredients_, last, grown>>

\* Mutant: after a refused prepareDish the replenishment branch is entered.
VisitStation_replenishAfterRefusal ==
    /\ pc = "station"
    /\ frame.station_node <= Len(registry)
    /\ LET station == registry[frame.station_node]
           name == dishName(frame.dish)
           assigned == dishAssigned(dishes[station], frame.dish)
           can == canCompleteOrder(dishes[station], stock[station], name)
           visit == Append(frame.trace, Visit(station, assigned, assigned /\ can,
                                              stock[station], backup_ingredients_))
       IN IF ~assigned
          THEN /\ frame' = [frame EXCEPT !.station_node = getNext(@), !.trace = visit]
               /\ UNCHANGED <<pc, stock, last>>
          ELSE IF can
          THEN \E r \in prepareDish(dishes[station], stock[station], name) :
                  /\ stock' = [stock EXCEPT ![station] = r.stock]
                  /\ last' = [last EXCEPT !.honest = @ /\ r.ret]
                  /\ IF r.ret
                     THEN /\ frame' = [frame EXCEPT !.dish_prepared = TRUE,
                                                    !.trace = Prepared(visit, r.ret)]
                          /\ pc' = "walked"
                     ELSE /\ frame' = [frame EXCEPT !.ingredient = 1,
                                                    !.trace = Prepared(visit, r.ret)]
                          /\ pc' = "replenish"
          ELSE /\ frame' = [frame EXCEPT !.ingredient = 1, !.trace = visit]
               /\ pc' = "replenish"
               /\ UNCHANGED <<stock, last>>
    /\ UNCHANGED <<registry, dishes, backup_ingredients_, dish_queue_, grown>>

\* lines 438-463: one station of the walk, up to the replenishment loop
VisitStation ==
    /\ pc = "station"
    /\ frame.station_node <= Len(registry)
    /\ LET station == registry[frame.station_node]
           name == dishName(frame.dish)
           assigned == dishAssigned(dishes[station], frame.dish)
           can == canCompleteOrder(dishes[station], stock[station], name)
           visit == Append(frame.trace, Visit(station, assigned, assigned /\ can,
                                              stock[station], backup_ingredients_))
       IN IF ~assigned
          THEN /\ frame' = [frame EXCEPT !.station_node = getNext(@), !.trace = visit]
               /\ UNCHANGED <<pc, stock, last>>
          ELSE IF can
          THEN \E r \in prepareDish(dishes[station], stock[station], name) :
                  /\ stock' = [stock EXCEPT ![station] = r.stock]
                  /\ last' = [last EXCEPT !.honest = @ /\ r.ret]
                  /\ IF r.ret
                     THEN /\ frame' = [frame EXCEPT !.dish_prepared = TRUE,
                                                    !.trace = Prepared(visit, r.ret)]
                          /\ pc' = "walked"
                     ELSE /\ frame' = [frame EXCEPT !.station_node = getNext(@),
                                                    !.trace = Prepared(visit, r.ret)]
                          /\ pc' = pc
          ELSE /\ frame' = [frame EXCEPT !.ingredient = 1, !.trace = visit]
               /\ pc' = "replenish"
               /\ UNCHANGED <<stock, last>>
    /\ UNCHANGED <<registry, dishes, backup_ingredients_, dish_queue_, grown>>

\* Mutant: the loop goes on to the next ingredient after a failed withdrawal.
ReplenishIngredient_noBreak ==
    /\ pc = "replenish"
    /\ frame.ingredient <= Len(getIngredients(frame.dish))
    /\ LET station == registry[frame.station_node]
           ingredient == getIngredients(frame.dish)[frame.ingredient]
           replenish_quantity == replenishQuantity(stock[station], ingredient)
           r == replenishStationIngredientFromBackup(registry, stock, backup_ingredients_,
                    getName(station), ingredient.name, replenish_quantity)
       IN IF replenish_quantity > 0
          THEN /\ stock' = r.stock
               /\ backup_ingredients_' = r.backup
               /\ frame' = [frame EXCEPT !.ingredient = @ + 1,
                               !.trace = Withdrew(@, ingredient.name,
                                                  replenish_quantity, r.ret)]
               /\ pc' = pc
          ELSE /\ frame' = [frame EXCEPT !.ingredient = @ + 1]
               /\ UNCHANGED <<stock, backup_ingredients_, pc>>
    /\ UNCHANGED <<registry, dishes, dish_queue_, last, grown>>

\* lines 466-484: one ingredient of the dish in the replenishment loop
ReplenishIngredient ==
    /\ pc = "replenish"
    /\ frame.ingredient <= Len(getIngredients(frame.dish))
    /\ LET station == registry[frame.station_node]
           ingredient == getIngredients(frame.dish)[frame.ingredient]
           replenish_quantity == replenishQuantity(stock[station], ingredient)
           r == replenishStationIngredientFromBackup(registry, stock, backup_ingredients_,
                    getName(station), ingredient.name, replenish_quantity)
       IN IF replenish_quantity > 0
          THEN /\ stock' = r.stock
               /\ backup_ingredients_' = r.backup
               /\ IF r.ret
                  THEN /\ frame' = [frame EXCEPT !.ingredient = @ + 1,
                                       !.trace = Withdrew(@, ingredient.name,
                                                          replenish_quantity, r.ret)]
                       /\ pc' = pc
                  ELSE /\ frame' = [frame EXCEPT !.station_node = getNext(@),
                                       !.trace = Withdrew(@, ingredient.name,
                                                          replenish_quantity, r.ret)]
                       /\ pc' = "station"
          ELSE /\ frame' = [frame EXCEPT !.ingredient = @ + 1]
               /\ UNCHANGED <<stock, backup_ingredients_, pc>>
    /\ UNCHANGED <<registry, dishes, dish_queue_, last, grown>>

\* lines 486-494: every shortfall was covered, prepare the dish once
PrepareAfterReplenish ==
    /\ pc = "replenish"
    /\ frame.ingredient > Len(getIngredients(frame.dish))
    /\ LET station == registry[frame.station_node]
           can == canCompleteOrder(dishes[station], stock[station], dishName(frame.dish))
       IN \E r \in prepareDish(dishes[station], stock[station], dishName(frame.dish)) :
             /\ stock' = [stock EXCEPT ![station] = r.stock]
             /\ last' = [last EXCEPT !.honest = @ /\ (r.ret \/ ~can)]
             /\ IF r.ret
                THEN /\ frame' = [frame EXCEPT !.dish_prepared = TRUE,
                                               !.trace = Prepared(@, r.ret)]
                     /\ pc' = "walked"
                ELSE /\ frame' = [frame EXCEPT !.station_node = getNext(@),
                                               !.trace = Prepared(@, r.ret)]
                     /\ pc' = "station"
    /\ UNCHANGED <<registry, dishes, backup_ingredients_, dish_queue_, grown>>

\* lines 501-507: the walk is over (break, or station_node is nullptr)
EndWalk ==
    /\ \/ pc = "walked"
       \/ pc = "station" /\ frame.station_node > Len(registry)
    /\ frame' = [frame EXCEPT
                   !.temp_queue = requeue(frame.temp_queue, frame.dish, frame.dish_prepared)]
    /\ last' = [last EXCEPT !.resolved = Append(@, frame.dish_prepared)]
    /\ pc' = "dish"
    /\ UNCHANGED <<registry, dishes, stock, backup_ingredients_, dish_queue_, grown>>

\* lines 509-511: the queue becomes temp_queue and the call returns
RestoreQueue ==
    /\ pc = "dish"
    /\ dish_queue_ = <<>>
    /\ dish_queue_' = frame.temp_queue
    /\ frame' = NoFrame
    /\ pc' = "idle"
    /\ UNCHANGED <<registry, dishes, stock, backup_ingredients_, last, grown>>

\* No station holds more than MaxQty of an ingredient: the states in which the
\* dispatch scenario still restocks the pool.
StockWithinBound ==
    \A s \in DOMAIN stock : \A n \in IngredientNames : QtyOf(stock[s], n) <= MaxQty

NextDispatch ==
    \/ \E d \in DishObjects \cup {nullptr} : AddDishToQueue(d)
    \/ \E d \in DishObjects \cup {nullptr}, q \in DietaryRequests :
          AddDishToQueueRequest(d, q)
    \/ \E v \in BulkIngredients : StockWithinBound /\ AddBackupIngredients(v)
    \/ \E n \in StationNames : MoveStationToFront(n)
    \/ PrepareNextDish
    \/ ProcessAllDishes
    \/ TakeDish
    \/ VisitStation
    \/ ReplenishIngredient
    \/ PrepareAfterReplenish
    \/ EndWalk
    \/ RestoreQueue

SpecDispatch == InitDispatch /\ [][NextDispatch]_vars

\* A step of the processAllDishes call under way.  The call is one
\* uninterrupted run of the function, so a step that can be taken is taken.
DispatchStep ==
    TakeDish \/ VisitStation \/ ReplenishIngredient \/ PrepareAfterReplenish
       \/ EndWalk \/ RestoreQueue

\* The orders in which the caller may have registered the four stations.
RegistryOrders ==
    { <<"s1", "s2", "s3", "s4">>, <<"s4", "s3", "s2", "s1">> }

\* The manager of InitDispatch with the stations registered in one of these
\* orders.
InitTermination ==
    /\ registry \in RegistryOrders
    /\ backup_ingredients_ = <<>>
    /\ dish_queue_ = <<>>
    /\ last = [op |-> "addStation", s |-> getName(registry[4]), t |-> "", q |-> 0,
               ret |-> TRUE, pre |-> SubSeq(registry, 1, 3), resolved |-> <<>>,
               again |-> FALSE, honest |-> TRUE]
    /\ pc = "idle"
    /\ frame = NoFrame
    /\ grown = 0
    /\ \E k \in InitDispatchStations : dishes = k.dishes /\ stock = k.stock

\* The calls that fill the queue and the pool, and the dispatch pass.
NextTermination ==
    \/ \E d \in DishObjects \cup {nullptr} : AddDishToQueue(d)
    \/ \E v \in BulkIngredients : StockWithinBound /\ AddBackupIngredients(v)
    \/ ProcessAllDishes
    \/ TakeDish
    \/ VisitStation
    \/ ReplenishIngredient
    \/ PrepareAfterReplenish
    \/ EndWalk
    \/ RestoreQueue

SpecDispatchFair == InitTermination /\ [][NextTermination]_vars /\ WF_vars(DispatchStep)

(***************************************************************************)
(* The worked example of processAllDishes (the empty-pool run is the one    *)
(* printed in its doc comment, lines 406-412):                              *)
(* Grill Station without Chicken and Oven Station with Chicken 5 are        *)
(* registered in that order, both are assigned the dish, one such dish is   *)
(* queued, and the pool holds Chicken 10, a Chicken record of quantity 0,   *)
(* or nothing.  Further dishes may be queued and further passes run.        *)
(***************************************************************************)
ExampleStations == {"s1", "s2"}

ExampleStock ==
    [s \in ExampleStations |->
        CASE s = "s1" -> <<Ingredient("Chicken", 0, 0)>>
          [] s = "s2" -> <<Ingredient("Chicken", 5, 0)>>]

ExamplePools ==
    { <<Ingredient("Chicken", 10, 0)>>, <<Ingredient("Chicken", 0, 0)>>, <<>> }

InitExample ==
    /\ registry = <<"s1", "s2">>
    /\ dishes = [s \in ExampleStations |-> <<ExampleDish>>]
    /\ stock = ExampleStock
    /\ backup_ingredients_ \in ExamplePools
    /\ dish_queue_ = <<ExampleDish>>
    /\ last = [op |-> "addDishToQueue", s |-> "", t |-> ExampleDish, q |-> 0, ret |-> TRUE,
               pre |-> <<>>, resolved |-> <<>>, again |-> FALSE, honest |-> TRUE]
    /\ pc = "idle"
    /\ frame = NoFrame
    /\ grown = 0

NextExample ==
    \/ AddDishToQueue(ExampleDish)
    \/ ProcessAllDishes
    \/ TakeDish
    \/ VisitStation
    \/ ReplenishIngredient
    \/ PrepareAfterReplenish
    \/ EndWalk
    \/ RestoreQueue

SpecExample == InitExample /\ [][NextExample]_vars

(***************************************************************************)
(* Repeated passes: the uniquely named stations of the dispatch scenario,   *)
(* a pool set in bulk (one vector names Spices twice), dishes queued and    *)
(* processAllDishes called any number of times.                             *)
(***************************************************************************)
StabilityIngredients ==
    { <<Ingredient("Chicken", 2, 0), Ingredient("Spices", 1, 0)>>,
      <<Ingredient("Chicken", 1, 0), Ingredient("Spices", 1, 0), Ingredient("Spices", 2, 0)>> }

InitStability ==
    /\ registry = <<"s1", "s2", "s3">>
    /\ backup_ingredients_ = <<>>
    /\ dish_queue_ = <<>>
    /\ last = [op |-> "addStation", s |-> getName("s3"), t |-> "", q |-> 0, ret |-> TRUE,
               pre |-> <<"s1", "s2">>, resolved |-> <<>>, again |-> FALSE, honest |-> TRUE]
    /\ pc = "idle"
    /\ frame = NoFrame
    /\ grown = 0
    /\ \E k \in InitDispatchStations : dishes = k.dishes /\ stock = k.stock

NextStability ==
    \/ \E d \in DishObjects : AddDishToQueue(d)
    \/ \E v \in StabilityIngredients : AddBackupIngredients(v)
    \/ ProcessAllDishes
    \/ TakeDish
    \/ VisitStation
    \/ ReplenishIngredient
    \/ PrepareAfterReplenish
    \/ EndWalk
    \/ RestoreQueue

SpecStability == InitStability /\ [][NextStability]_vars

(***************************************************************************)
(* Aborted replenishments: both stations named "Grill Station" are assigned *)
(* the two-ingredient dish and hold nothing, the second is registered right *)
(* after the first, and the pool is set to Chicken alone or to Chicken and  *)
(* Spices.                                                                  *)
(***************************************************************************)
RollbackStations ==
    [dishes |-> [s \in StationObjects \cup TwinObjects |->
                   CASE s = "s1" -> <<"d1">>
                     [] s = "s2" -> <<"d1">>
                     [] s = "s3" -> <<"d2">>
                     [] s = "s4" -> <<"d1">>],
     stock |-> [s \in StationObjects \cup TwinObjects |->
                   CASE s = "s1" -> <<>>
                     [] s = "s2" -> <<Ingredient("Chicken", 1, 0), Ingredient("Spices", 1, 0)>>
                     [] s = "s3" -> <<>>
                     [] s = "s4" -> <<>>]]

RollbackIngredients ==
    { <<Ingredient("Chicken", 2, 0)>>,
      <<Ingredient("Chicken", 2, 0), Ingredient("Spices", 1, 0)>> }

InitRollback ==
    /\ registry = <<"s1", "s4", "s2", "s3">>
    /\ dishes = RollbackStations.dishes
    /\ stock = RollbackStations.stock
    /\ backup_ingredients_ = <<>>
    /\ dish_queue_ = <<>>
    /\ last = [op |-> "addStation", s |-> getName("s3"), t |-> "", q |-> 0, ret |-> TRUE,
               pre |-> <<"s1", "s4", "s2">>, resolved |-> <<>>, again |-> FALSE,
               honest |-> TRUE]
    /\ pc = "idle"
    /\ frame = NoFrame
    /\ grown = 0

NextRollback ==
    \/ \E d \in DishObjects : AddDishToQueue(d)
    \/ \E v \in RollbackIngredients : StockWithinBound /\ AddBackupIngredients(v)
    \/ ProcessAllDishes
    \/ TakeDish
    \/ VisitStation
    \/ ReplenishIngredient
    \/ PrepareAfterReplenish
    \/ EndWalk
    \/ RestoreQueue

SpecRollback == InitRollback /\ [][NextRollback]_vars

(***************************************************************************)
(* Registry claims (checked under SpecRegistry).                           *)
(***************************************************************************)

\* C2: in every state reachable by addStation / removeStation / mergeStations
\* (addStation of an already registered name included) no two registry
\* entries share a name.
RegistryNamesUnique ==
    \A i, j \in 1..Len(registry) :
        getName(registry[i]) = getName(registry[j]) => i = j

\* The entries B's names that A's stock does not hold yet, in B's order.
NewNames(stockA, stockB) ==
    SelectSeq(NamesOf(stockB), LAMBDA n : \A i \in 1..Len(stockA) : stockA[i].name # n)

\* C6: after a successful mergeStations(A, B) with A and B distinct registered
\* stations, A's dish multiset is the multiset union of both pre-merge dish
\* vectors, A's stock of every ingredient is the sum of both pre-merge
\* quantities (ingredients only B had are appended), and B is absent from the
\* registry.
MergeConservation ==
    [][ (last'.op = "mergeStations" /\ last'.ret /\ last'.s # last'.t) =>
          LET A == findStation(registry, last'.s)
              B == findStation(registry, last'.t)
          IN /\ SeqToBag(dishes'[A]) = SeqToBag(dishes[A]) (+) SeqToBag(dishes[B])
             /\ \A n \in IngredientNames :
                  QtyOf(stock'[A], n) = QtyOf(stock[A], n) + QtyOf(stock[B], n)
             /\ NamesOf(stock'[A]) = NamesOf(stock[A]) \o NewNames(stock[A], stock[B])
             /\ B \notin Range(registry') ]_vars

\* C7 as stated: after every successful mergeStations(nameA, nameB), whatever
\* the registry order and also when nameA = nameB, A is in the registry at
\* the index it had before and B is no longer in the registry.
MergeKeepsPositionOfA ==
    [][ (last'.op = "mergeStations" /\ last'.ret) =>
          /\ getStationIndex(registry', last'.s) # -1
          /\ getStationIndex(registry', last'.s) = getStationIndex(registry, last'.s)
          /\ (last'.s # last'.t => getStationIndex(registry', last'.t) = -1) ]_vars

\* C7 as amended: a successful mergeStations(nameA, nameB) removes exactly the
\* first entry named nameB and keeps every other entry in its relative order;
\* with different names A stays registered, at its old index when it preceded
\* that entry and one index lower when that entry preceded it; with
\* nameA = nameB the removed entry is A's own.
MergeRemovesFirstB ==
    [][ (last'.op = "mergeStations" /\ last'.ret) =>
          LET ia == getStationIndex(registry, last'.s)
              ib == getStationIndex(registry, last'.t)
          IN /\ ia # -1 /\ ib # -1
             /\ registry' = RemoveAt(registry, ib + 1)
             /\ (last'.s # last'.t =>
                   getStationIndex(registry', last'.s) = IF ia < ib THEN ia ELSE ia - 1)
             /\ (last'.s = last'.t => ia = ib) ]_vars

\* C7 witness: a successful merge whose B entry stood before A's entry, so
\* that A moved one index down.
MergeWithBBeforeA ==
    /\ last.op = "mergeStations" /\ last.ret /\ last.s # last.t
    /\ getStationIndex(last.pre, last.t) < getStationIndex(last.pre, last.s)
    /\ getStationIndex(registry, last.s) = getStationIndex(last.pre, last.s) - 1
    /\ Len(last.pre) = 3

\* C8: mergeStations(nameA, nameB) returns failure whenever either name is
\* absent from the registry, and then the registry order, every station's
\* dish assignments and every station's stock are unchanged.
MergeFailsWhenAbsent ==
    [][ (last'.op = "mergeStations"
           /\ (findStation(registry, last'.s) = nullptr
                 \/ findStation(registry, last'.t) = nullptr)) =>
          /\ last'.ret = FALSE
          /\ UNCHANGED <<registry, dishes, stock>> ]_vars

\* C8 witness: a failed merge on a non-empty registry in which one of the two
\* names is registered and the other is not.
MergeFailedOnAbsentName ==
    /\ last.op = "mergeStations" /\ ~last.ret
    /\ Len(registry) >= 2
    /\ findStation(last.pre, last.s) # nullptr
    /\ findStation(last.pre, last.t) = nullptr

\* C9: moveStationToFront(X) called twice in a row leaves the registry order of
\* the first call, and the second call returns what the first returned.
MoveToFrontIdempotent ==
    [][ (last.op = "moveStationToFront" /\ last'.op = "moveStationToFront"
           /\ last'.s = last.s) =>
          /\ registry' = registry
          /\ last'.ret = last.ret ]_vars

\* C9 witness: a second moveStationToFront(X) in a row, which finds X at the
\* front of a registry of three distinct stations and leaves it there.
MovedToFrontTwice ==
    /\ last.op = "moveStationToFront" /\ last.again /\ last.ret
    /\ Len(registry) = 3
    /\ getName(registry[1]) = last.s
    /\ last.pre = registry
    /\ NoRepeat(registry)

\* C10: moveStationToFront(name) fails and leaves the registry unchanged when
\* the name is absent (the empty registry included); otherwise it succeeds, the
\* named station ends at index 0, the other stations keep their relative
\* order, the length is unchanged and no station's assignments or stock change.
MoveToFrontContract ==
    [][ last'.op = "moveStationToFront" =>
          LET i == getStationIndex(registry, last'.s)
          IN /\ UNCHANGED <<dishes, stock>>
             /\ IF i = -1
                THEN last'.ret = FALSE /\ registry' = registry
                ELSE /\ last'.ret = TRUE
                     /\ Len(registry') = Len(registry)
                     /\ registry'[1] = registry[i + 1]
                     /\ getName(registry'[1]) = last'.s
                     /\ Tail(registry') = RemoveAt(registry, i + 1) ]_vars

\* C10 witness: the last of three distinct stations was moved to the front.
MovedLastToFront ==
    /\ last.op = "moveStationToFront" /\ last.ret
    /\ Len(last.pre) = 3 /\ NoRepeat(last.pre)
    /\ getStationIndex(last.pre, last.s) = 2
    /\ registry = <<last.pre[3], last.pre[1], last.pre[2]>>

(***************************************************************************)
(* Backup pool claims (checked under SpecBackup).                          *)
(***************************************************************************)
IsReplenish(call) == call.op = "replenishStationIngredientFromBackup"

\* The records of a vector that are not named n, in order.
OtherRecords(records, n) == SelectSeq(records, LAMBDA r : r.name # n)

\* C3: for every successful replenishStationIngredientFromBackup(station,
\* name, q) the pool quantity of name after the call plus q equals the pool
\* quantity before, the station's stock of name after equals its stock before
\* plus q, and no other ingredient of the pool and no other station's stock
\* changes.
WithdrawalZeroSum ==
    [][ (IsReplenish(last') /\ last'.ret) =>
          LET station == findStation(registry, last'.s)
              name == last'.t
              q == last'.q
          IN /\ QtyOf(backup_ingredients_', name) + q = QtyOf(backup_ingredients_, name)
             /\ QtyOf(stock'[station], name) = QtyOf(stock[station], name) + q
             /\ OtherRecords(backup_ingredients_', name)
                  = OtherRecords(backup_ingredients_, name)
             /\ OtherRecords(stock'[station], name) = OtherRecords(stock[station], name)
             /\ \A s \in StationObjects \ {station} : stock'[s] = stock[s] ]_vars

\* C3 witness: a successful withdrawal of part of a pool record, with another
\* ingredient in the pool and the station credited.
WithdrewPartOfRecord ==
    /\ IsReplenish(last) /\ last.ret
    /\ QtyOf(backup_ingredients_, last.t) > 0
    /\ QtyOf(last.pre, last.t) = QtyOf(backup_ingredients_, last.t) + last.q
    /\ OtherRecords(backup_ingredients_, last.t) # <<>>
    /\ QtyOf(stock[findStation(registry, last.s)], last.t) >= last.q

\* C4: a replenishStationIngredientFromBackup call returns false when the
\* requested quantity exceeds the pool's quantity, the ingredient name is absent
\* from the pool, the quantity is <= 0 or the station is not found; and a call
\* that returns false leaves the pool and every station's stock as they were.
WithdrawalAtomic ==
    [][ IsReplenish(last') =>
          /\ ( \/ last'.q > QtyOf(backup_ingredients_, last'.t)
               \/ FirstNamed(backup_ingredients_, last'.t) = 0
               \/ last'.q <= 0
               \/ findStation(registry, last'.s) = nullptr ) => ~last'.ret
          /\ ~last'.ret => UNCHANGED <<backup_ingredients_, stock>> ]_vars

\* C4 witness: a withdrawal refused because the request exceeds what the
\* pool holds of an ingredient it does hold, for a registered station.
RefusedForQuantity ==
    /\ IsReplenish(last) /\ ~last.ret
    /\ findStation(registry, last.s) # nullptr
    /\ QtyOf(backup_ingredients_, last.t) > 0
    /\ last.q > QtyOf(backup_ingredients_, last.t)

PoolNamesUnique ==
    \A i, j \in 1..Len(backup_ingredients_) :
        backup_ingredients_[i].name = backup_ingredients_[j].name => i = j

(***************************************************************************)
(* Dispatch claims (checked under SpecDispatch).                           *)
(***************************************************************************)
Returned(op) == pc = "idle" /\ last.op = op

\* The items of queue whose flag in resolved is FALSE, in queue order.
RECURSIVE Unresolved(_, _)
Unresolved(queue, resolved) ==
    IF queue = <<>> THEN <<>>
    ELSE (IF Head(resolved) THEN <<>> ELSE <<Head(queue)>>)
           \o Unresolved(Tail(queue), Tail(resolved))

\* C1: after processAllDishes returns, the dish queue is exactly the
\* subsequence of the pre-call queue made of the items no station prepared, in
\* their original relative order; prepared items are absent, nothing is
\* duplicated and nothing new appears.
QueueIsUnresolvedSubsequence ==
    Returned("processAllDishes") =>
        /\ Len(last.resolved) = Len(last.pre)
        /\ dish_queue_ = Unresolved(last.pre, last.resolved)

\* C1 witness: a pass over three items of which one was prepared and the two
\* others, left unprepared by every station, are back in the queue in order.
OnePreparedTwoRequeued ==
    /\ Returned("processAllDishes")
    /\ Len(last.pre) = 3
    /\ \E i \in 1..3 : last.resolved[i]
    /\ Len(dish_queue_) = 2
    /\ dish_queue_[1] # dish_queue_[2]

\* C18: addDishToQueue (both overloads) with a null item leaves the queue
\* unchanged; with a non-null item it appends that item at the back and leaves
\* the items already queued and their order unchanged.
EnqueueAppendsAtBack ==
    [][ last'.op = "addDishToQueue" =>
          IF last'.t = nullptr
          THEN dish_queue_' = dish_queue_
          ELSE /\ Len(dish_queue_') = Len(dish_queue_) + 1
               /\ dish_queue_'[Len(dish_queue_')] = last'.t
               /\ SubSeq(dish_queue_', 1, Len(dish_queue_)) = dish_queue_ ]_vars

\* C18 witness: the overload with a dietary request put a dish behind two
\* queued dishes, the first of which is another dish.
EnqueuedBehindTwo ==
    /\ last.op = "addDishToQueue" /\ last.s \in DietaryRequests
    /\ Len(last.pre) = 2
    /\ last.t # last.pre[1]
    /\ dish_queue_ = <<last.pre[1], last.pre[2], last.t>>

\* C20: prepareNextDish returns true exactly when some station, asked in
\* registry order, reports that it can complete the front dish and then prepares
\* it (last'.q is that station's position); then exactly the front dish leaves
\* the queue and only that station's stock changes, by the dish's requirements.
\* Otherwise (empty queue, or no station that can and does) it returns false and
\* the queue and every stock are as before.  The backup pool is never touched.
PrepareNextDishContract ==
    [][ last'.op = "prepareNextDish" =>
          LET k == last'.q
              name == dishName(Head(dish_queue_))
              Can(i) == canCompleteOrder(dishes[registry[i]], stock[registry[i]], name)
          IN /\ UNCHANGED <<backup_ingredients_, registry, dishes>>
             /\ last'.ret <=> k # 0
             /\ (dish_queue_ = <<>> \/ \A i \in 1..Len(registry) : ~Can(i)) => ~last'.ret
             /\ IF last'.ret
                THEN /\ dish_queue_ # <<>>
                     /\ dish_queue_' = Tail(dish_queue_)
                     /\ k \in 1..Len(registry) /\ Can(k)
                     /\ stock' = [stock EXCEPT ![registry[k]] =
                                    Consume(@, getIngredients(assignedDish(
                                                   dishes[registry[k]], name)))]
                ELSE UNCHANGED <<dish_queue_, stock>> ]_vars

\* C20 witness: with two dishes queued the call prepared the front dish at
\* the second station of the registry, after the first could not or did not.
PreparedFrontAtSecondStation ==
    /\ last.op = "prepareNextDish" /\ last.ret /\ last.q = 2
    /\ Len(last.pre) = 2
    /\ dish_queue_ = Tail(last.pre)

\* A station walk is under way.
InWalk == pc \in {"station", "replenish", "walked"}

\* The walk of the current dish is over: a station prepared it, or
\* station_node is nullptr.
WalkOver == pc = "walked" \/ (pc = "station" /\ frame.station_node > Len(registry))

\* The withdrawals a replenishment of the station has to make for the item:
\* for each ingredient of the item's list, in list order, whose required
\* quantity exceeds what the station holds, that ingredient and the difference.
RECURSIVE Shortfalls(_, _)
Shortfalls(ingredients, stock_vector) ==
    IF ingredients = <<>> THEN <<>>
    ELSE LET short == Head(ingredients).required_quantity
                        - OnHand(stock_vector, Head(ingredients).name)
         IN (IF short > 0
             THEN <<[name |-> Head(ingredients).name, quantity |-> short]>>
             ELSE <<>>) \o Shortfalls(Tail(ingredients), stock_vector)

\* The visit of a trace entry ended with a prepareDish call that returned true.
Produced(e) == e.prepares # <<>> /\ e.prepares[Len(e.prepares)]

\* The visit of a trace entry is over without the dish: the station has no
\* assignment, or it refused to prepare the dish (at once, or after all the
\* withdrawals the item needed there had succeeded), or a withdrawal failed.
GaveUp(e, dish) ==
    \/ ~e.assigned /\ e.withdrawals = <<>> /\ e.prepares = <<>>
    \/ e.assigned /\ e.can /\ e.withdrawals = <<>> /\ e.prepares = <<FALSE>>
    \/ /\ e.assigned /\ ~e.can /\ e.prepares = <<FALSE>>
       /\ Len(e.withdrawals) = Len(Shortfalls(getIngredients(dish), e.stock0))
       /\ \A j \in 1..Len(e.withdrawals) : e.withdrawals[j].ret
    \/ /\ e.assigned /\ ~e.can /\ e.prepares = <<>>
       /\ e.withdrawals # <<>> /\ ~e.withdrawals[Len(e.withdrawals)].ret

\* C11: processAllDishes visits the stations in registry order from index 0,
\* the registry being fixed during the call, and stops at the first station
\* that prepares the item: at most one station prepares an item, every
\* station before it was visited and gave up (not assigned, withdrawal failed,
\* or prepareDish refused), no station behind the current one is visited or
\* has its stock changed for the item, and after a successful
\* moveStationToFront(X) right before the call X is the first station visited
\* for every item.
ProbesInRegistryOrder ==
    [][ /\ pc # "idle" => UNCHANGED registry
        /\ (pc = "idle" /\ pc' = "dish" /\ last.op = "moveStationToFront" /\ last.ret) =>
              getName(registry[1]) = last.s
        /\ InWalk' =>
             LET f == frame'
                 n == Len(f.trace)
                 \* visits that are over
                 done == IF pc' = "replenish" THEN n - 1 ELSE n
             IN /\ \A i \in 1..n : f.trace[i].station = registry'[i]
                /\ n = IF pc' = "station" THEN f.station_node - 1 ELSE f.station_node
                /\ n <= Len(registry')
                /\ f.dish_prepared <=> pc' = "walked"
                /\ \A i \in 1..n : Produced(f.trace[i]) <=> (pc' = "walked" /\ i = n)
                /\ \A i \in 1..done : ~Produced(f.trace[i]) => GaveUp(f.trace[i], f.dish)
                /\ \A j \in (n + 1)..Len(registry') :
                      stock'[registry'[j]] = f.walk0.stock[registry'[j]] ]_vars

\* C11 witness: the item was prepared by the third of four stations, after a
\* replenishment there; the stations before it gave up, one of them at a
\* failed withdrawal; the fourth station was not visited.
PreparedAtThirdStation ==
    /\ pc = "walked" /\ frame.dish_prepared
    /\ Len(registry) = 4 /\ Len(frame.trace) = 3
    /\ frame.trace[3].withdrawals # <<>>
    /\ \E i \in 1..2 : /\ frame.trace[i].withdrawals # <<>>
                         /\ ~frame.trace[i].withdrawals[Len(frame.trace[i].withdrawals)].ret
    /\ stock[registry[4]] = frame.walk0.stock[registry[4]]

\* No dish in the station's dish vector has the name of the item.
NoDishNamed(station, dish) ==
    \A i \in 1..Len(dishes[station]) : dishName(dishes[station][i]) # dishName(dish)

\* C15: in processAllDishes a station with no assignment of the item's name is
\* skipped: the visit leaves the backup pool, that station's stock and every
\* other stock unchanged, makes no withdrawal and no prepareDish call, and the
\* walk goes on with the next station, whatever the stock and the pool hold.
SkipsUnassigned ==
    [][ /\ (pc = "station" /\ frame.station_node <= Len(registry)
              /\ NoDishNamed(registry[frame.station_node], frame.dish)) =>
             /\ UNCHANGED <<backup_ingredients_, stock, dishes, registry, dish_queue_>>
             /\ pc' = "station"
             /\ frame'.station_node = frame.station_node + 1
             /\ Len(frame'.trace) = Len(frame.trace) + 1
             /\ frame'.trace[Len(frame'.trace)].station = registry[frame.station_node]
        /\ InWalk' =>
             \A i \in 1..Len(frame'.trace) :
                NoDishNamed(frame'.trace[i].station, frame'.dish) =>
                   /\ ~frame'.trace[i].assigned
                   /\ frame'.trace[i].withdrawals = <<>>
                   /\ frame'.trace[i].prepares = <<>> ]_vars

\* C15 witness: a station without the assignment was just skipped although it
\* holds stock and the pool is not empty; both are as they were.
SkippedStockedStation ==
    /\ pc = "station" /\ frame.trace # <<>>
    /\ LET e == frame.trace[Len(frame.trace)]
       IN /\ NoDishNamed(e.station, frame.dish)
          /\ \E n \in IngredientNames : QtyOf(e.stock0, n) > 0
          /\ \E n \in IngredientNames : QtyOf(e.backup0, n) > 0
          /\ stock[e.station] = e.stock0
          /\ backup_ingredients_ = e.backup0
          /\ frame.station_node = Len(frame.trace) + 1

\* C13: in the replenishment of processAllDishes the withdrawals follow the
\* item's own ingredient list, one per ingredient with a positive shortfall;
\* as soon as one fails no withdrawal is attempted for a later ingredient of
\* the item at that station, prepareDish is not called there for the item, and
\* the walk is at the next station.
ReplenishmentAborts ==
    [][ InWalk' =>
          \A i \in 1..Len(frame'.trace) :
             LET e == frame'.trace[i]
                 w == e.withdrawals
                 due == Shortfalls(getIngredients(frame'.dish), e.stock0)
             IN /\ Len(w) <= Len(due)
                /\ \A j \in 1..Len(w) :
                      w[j].name = due[j].name /\ w[j].quantity = due[j].quantity
                /\ \A j \in 1..(Len(w) - 1) : w[j].ret
                /\ (w # <<>> /\ ~w[Len(w)].ret) =>
                      /\ e.prepares = <<>>
                      /\ frame'.station_node > i
                      /\ i = Len(frame'.trace) =>
                            pc' = "station" /\ frame'.station_node = i + 1 ]_vars

\* C13 witness: a replenishment was abandoned at a failed withdrawal while a
\* later ingredient of the item was short as well; no withdrawal was attempted
\* for that ingredient and the pool, which is not empty, is as it was.
AbandonedBeforeLaterIngredient ==
    /\ pc = "station" /\ frame.trace # <<>>
    /\ LET e == frame.trace[Len(frame.trace)]
           w == e.withdrawals
           due == Shortfalls(getIngredients(frame.dish), e.stock0)
       IN /\ w # <<>> /\ ~w[Len(w)].ret
          /\ Len(w) < Len(due)
          /\ backup_ingredients_ # <<>>
          /\ backup_ingredients_ = e.backup0
          /\ e.prepares = <<>>

\* What the item's list asks to withdraw of ingredient n for a station whose
\* stock is stock_vector.
DueOf(ingredients, stock_vector, n) ==
    LET due == Shortfalls(ingredients, stock_vector)
        RECURSIVE Sum(_)
        Sum(k) == IF k = 0 THEN 0
                  ELSE (IF due[k].name = n THEN due[k].quantity ELSE 0) + Sum(k - 1)
    IN Sum(Len(due))

\* The pool covers every shortfall of the item at a station with that stock.
Covers(pool, ingredients, stock_vector) ==
    \A n \in IngredientNames : QtyOf(pool, n) >= DueOf(ingredients, stock_vector, n)

\* C14: when an assigned station cannot complete the order and the pool covers
\* every shortfall, the replenishment of processAllDishes takes exactly
\* max(0, required - on-hand) of each required ingredient from the pool and the
\* station gains the same amounts, so that the station holds at least the
\* required quantity of every required ingredient; prepareDish is then called
\* exactly once, and if it returns true the item is resolved and is not
\* requeued.
ReplenishmentCredits ==
    [][ /\ InWalk' =>
             \A i \in 1..Len(frame'.trace) :
                LET e == frame'.trace[i]
                    item == getIngredients(frame'.dish)
                    over == i < Len(frame'.trace) \/ pc' # "replenish"
                    replenished == /\ i = Len(frame'.trace) /\ pc' = "replenish"
                                   /\ frame'.ingredient > Len(item)
                IN (e.assigned /\ ~e.can /\ Covers(e.backup0, item, e.stock0)) =>
                     /\ (over \/ replenished) =>
                           /\ Len(e.withdrawals) = Len(Shortfalls(item, e.stock0))
                           /\ \A j \in 1..Len(e.withdrawals) : e.withdrawals[j].ret
                     /\ replenished =>
                           /\ e.prepares = <<>>
                           /\ \A n \in IngredientNames :
                                 /\ QtyOf(backup_ingredients_', n)
                                      = QtyOf(e.backup0, n) - DueOf(item, e.stock0, n)
                                 /\ OnHand(stock'[e.station], n)
                                      = OnHand(e.stock0, n) + DueOf(item, e.stock0, n)
                           /\ \A k \in 1..Len(item) :
                                 OnHand(stock'[e.station], item[k].name)
                                   >= item[k].required_quantity
                     /\ over =>
                           /\ Len(e.prepares) = 1
                           /\ Produced(e) => frame'.dish_prepared
        /\ (WalkOver /\ pc' = "dish" /\ frame.dish_prepared) =>
             frame'.temp_queue = frame.temp_queue ]_vars

\* C16: when a station's canCompleteOrder returns true but its prepareDish
\* returns false, no withdrawal is made for that station and prepareDish is not
\* called there again, the walk goes on with the next station, and the item is
\* requeued only if no station of the walk prepared it.
RefusalMovesOn ==
    [][ /\ (pc = "station" /\ frame.station_node <= Len(registry)
              /\ dishAssigned(dishes[registry[frame.station_node]], frame.dish)
              /\ canCompleteOrder(dishes[registry[frame.station_node]],
                                  stock[registry[frame.station_node]],
                                  dishName(frame.dish))) =>
             /\ UNCHANGED backup_ingredients_
             /\ \/ pc' = "walked" /\ frame'.dish_prepared
                \/ /\ pc' = "station" /\ ~frame'.dish_prepared
                   /\ frame'.station_node = frame.station_node + 1
                   /\ UNCHANGED stock
        /\ InWalk' =>
             \A i \in 1..Len(frame'.trace) :
                LET e == frame'.trace[i]
                IN (e.can /\ e.prepares # <<>> /\ ~e.prepares[1]) =>
                      /\ e.withdrawals = <<>>
                      /\ Len(e.prepares) = 1
                      /\ frame'.station_node > i
        /\ (WalkOver /\ pc' = "dish") =>
             frame'.temp_queue =
                IF \E i \in 1..Len(frame.trace) : TRUE \in Range(frame.trace[i].prepares)
                THEN frame.temp_queue
                ELSE Append(frame.temp_queue, frame.dish) ]_vars

\* C16 witness: the first station said it can complete the order and then
\* refused to prepare the dish; a later station prepared it.
PreparedAfterRefusal ==
    /\ pc = "walked" /\ frame.dish_prepared
    /\ Len(frame.trace) >= 2
    /\ frame.trace[1].can /\ frame.trace[1].prepares = <<FALSE>>
    /\ frame.trace[1].withdrawals = <<>>
    /\ backup_ingredients_ # <<>>

\* The number of dishes of the running call whose walk is over or under way.
Taken == Len(last.resolved) + (IF InWalk THEN 1 ELSE 0)

\* C19: processAllDishes terminates: a call under way returns.  It takes the
\* queued items one by one in arrival order, each exactly once; it visits each
\* registry entry at most once per item; and it takes item N+1 only after the
\* walk of item N, replenishment included, is over.
DispatchTerminates ==
    /\ [][ /\ pc' # "idle" =>
                /\ last'.op = "processAllDishes"
                /\ Taken' <= Len(last'.pre)
                /\ dish_queue_' = SubSeq(last'.pre, Taken' + 1, Len(last'.pre))
                /\ InWalk' => frame'.dish = last'.pre[Taken']
                /\ Len(frame'.trace) <= Len(registry')
                /\ \A i \in 1..Len(frame'.trace) : frame'.trace[i].station = registry'[i]
           /\ (pc # "idle" /\ frame'.dish # frame.dish) =>
                \/ pc = "dish" /\ pc' = "station" /\ frame'.trace = <<>>
                \/ pc = "dish" /\ pc' = "idle" /\ dish_queue_ = <<>>
           /\ (pc # "idle" /\ pc' = "idle") =>
                Len(last.resolved) = Len(last.pre) ]_vars
    /\ (pc # "idle") ~> (pc = "idle")

\* C19 witness: a call returned after taking three items, the last of which
\* was walked past all four stations.
ReturnedAfterThreeWalks ==
    /\ Returned("processAllDishes")
    /\ Len(last.pre) = 3 /\ Len(last.resolved) = 3
    /\ ~last.resolved[3]
    /\ Len(registry) = 4

\* No prepareDish call of the walk returned false.
NoRefusal(trace) == \A i \in 1..Len(trace) : FALSE \notin Range(trace[i].prepares)

\* C12: with registry [Grill (Chicken 0), Oven (Chicken 5)], both assigned
\* Grilled Chicken, and one queued Grilled Chicken requiring Chicken 1, a
\* processAllDishes call in which no station refuses a dish it can complete
\* ends as follows.  Pool Chicken 10: the pool holds Chicken 9, Grill Chicken 0
\* (replenished by 1, then consumed), Oven still Chicken 5, the queue is empty.
\* Pool Chicken 0: the withdrawal for Grill fails, Oven prepares the dish, the
\* queue is empty and the pool is unchanged.
ExampleOutcome ==
    [][ (pc = "dish" /\ pc' = "idle" /\ last.pre = <<ExampleDish>>
           /\ registry = <<"s1", "s2">>
           /\ frame.walk0.stock = ExampleStock /\ NoRefusal(frame.trace)) =>
          LET pool0 == frame.walk0.backup
          IN /\ dish_queue_' = <<>>
             /\ last.resolved = <<TRUE>>
             /\ pool0 = <<Ingredient("Chicken", 10, 0)>> =>
                   /\ backup_ingredients_' = <<Ingredient("Chicken", 9, 0)>>
                   /\ stock' = ExampleStock
                   /\ Len(frame.trace) = 1
                   /\ frame.trace[1].withdrawals =
                         <<[name |-> "Chicken", quantity |-> 1, ret |-> TRUE]>>
             /\ QtyOf(pool0, "Chicken") = 0 =>
                   /\ backup_ingredients_' = pool0
                   /\ Len(frame.trace) = 2
                   /\ frame.trace[1].withdrawals =
                         <<[name |-> "Chicken", quantity |-> 1, ret |-> FALSE]>>
                   /\ frame.trace[1].prepares = <<>>
                   /\ frame.trace[2].can /\ frame.trace[2].prepares = <<TRUE>>
                   /\ stock'["s1"] = ExampleStock["s1"]
                   /\ stock'["s2"] = <<Ingredient("Chicken", 4, 0)>> ]_vars

\* C12 witness: the pass over the example with pool Chicken 10 has returned:
\* pool Chicken 9, Grill Chicken 0, Oven Chicken 5, queue empty.
ExampleWithFullPoolDone ==
    /\ Returned("processAllDishes")
    /\ last.pre = <<ExampleDish>> /\ last.resolved = <<TRUE>>
    /\ registry = <<"s1", "s2">>
    /\ backup_ingredients_ = <<Ingredient("Chicken", 9, 0)>>
    /\ stock = ExampleStock
    /\ dish_queue_ = <<>>

(***************************************************************************)
(* Quantities over the whole kitchen.                                      *)
(***************************************************************************)
\* The quantity of ingredient n held by the stations of S together.
RECURSIVE HeldAt(_, _, _)
HeldAt(stk, S, n) ==
    IF S = {} THEN 0
    ELSE LET s == CHOOSE x \in S : TRUE
         IN QtyOf(stk[s], n) + HeldAt(stk, S \ {s}, n)

\* The quantity of ingredient n in the pool and in every station's stock.
Total(stk, pool, n) == QtyOf(pool, n) + HeldAt(stk, DOMAIN stk, n)

\* What a dish's ingredient list requires of ingredient n.
RECURSIVE RequiredOf(_, _)
RequiredOf(ingredients, n) ==
    IF ingredients = <<>> THEN 0
    ELSE (IF Head(ingredients).name = n THEN Head(ingredients).required_quantity ELSE 0)
           + RequiredOf(Tail(ingredients), n)

\* The step is a prepareDish call of the walk that returned true.
ProductionStep == InWalk /\ ~frame.dish_prepared /\ frame'.dish_prepared

\* C21: during a processAllDishes call, for every ingredient name, pool plus
\* all stations' stock never increases; it decreases only in a step where a
\* station prepared the dish, and then by what that station's dish requires;
\* a step that changes the pool moves the withdrawn quantity into the stations
\* (whether the replenishment later completes or aborts); the pool quantity of
\* every ingredient is non-negative and never increases.
DispatchConservesQuantity ==
    [][ ( /\ pc # "idle" \/ pc' # "idle"
          /\ \/ stock' # stock
             \/ backup_ingredients_' # backup_ingredients_
             \/ ProductionStep ) =>
          \A n \in IngredientNames :
             /\ Total(stock', backup_ingredients_', n) <= Total(stock, backup_ingredients_, n)
             /\ QtyOf(backup_ingredients_', n) <= QtyOf(backup_ingredients_, n)
             /\ \A i \in 1..Len(backup_ingredients_') : backup_ingredients_'[i].quantity >= 0
             /\ ProductionStep =>
                   LET station == registry[frame.station_node]
                       own == assignedDish(dishes[station], dishName(frame.dish))
                   IN /\ backup_ingredients_' = backup_ingredients_
                      /\ Total(stock', backup_ingredients_', n)
                           = Total(stock, backup_ingredients_, n)
                               - RequiredOf(getIngredients(own), n)
             /\ ~ProductionStep =>
                   /\ Total(stock', backup_ingredients_', n)
                        = Total(stock, backup_ingredients_, n)
                   /\ HeldAt(stock', DOMAIN stock', n) - HeldAt(stock, DOMAIN stock, n)
                        = QtyOf(backup_ingredients_, n) - QtyOf(backup_ingredients_', n) ]_vars

\* C21 witness: in one walk a station was credited a withdrawal from the pool
\* and then prepared the dish, so quantity moved and quantity was consumed.
ReplenishedThenConsumed ==
    /\ pc = "walked" /\ frame.dish_prepared
    /\ LET e == frame.trace[Len(frame.trace)]
       IN /\ e.withdrawals # <<>>
          /\ \A i \in 1..Len(e.withdrawals) : e.withdrawals[i].ret
          /\ e.prepares = <<TRUE>>
          /\ backup_ingredients_ # e.backup0

\* C22: when every station keeps to its contract (prepareDish returns true
\* exactly when the station can complete the order), a processAllDishes call
\* made directly after another processAllDishes call returns with the dish
\* queue it started with: same items, same order.
RequeueStable ==
    [][ (pc = "dish" /\ pc' = "idle" /\ last.op = "processAllDishes"
           /\ last.again /\ last.honest) =>
          dish_queue_' = last.pre ]_vars

\* The step is a withdrawal of the replenishment loop that failed after at
\* least one withdrawal of the same visit had succeeded.
AbortStep ==
    /\ pc = "replenish" /\ pc' = "station"
    /\ LET e == frame'.trace[Len(frame'.trace)]
       IN /\ Len(e.withdrawals) >= 2
          /\ ~e.withdrawals[Len(e.withdrawals)].ret

\* C23: when the replenishment for an item at a station aborts at a later
\* ingredient, every amount withdrawn for an earlier ingredient is still
\* credited to that station (it holds what it held when the visit began plus
\* the amount) and is still missing from the pool (the pool holds what it held
\* when the visit began less the amount).
AbortKeepsWithdrawals ==
    [][ AbortStep =>
          LET e == frame'.trace[Len(frame'.trace)]
          IN \A i \in 1..(Len(e.withdrawals) - 1) :
                LET w == e.withdrawals[i]
                IN /\ w.ret
                   /\ OnHand(stock'[e.station], w.name)
                        = OnHand(e.stock0, w.name) + w.quantity
                   /\ QtyOf(backup_ingredients_', w.name)
                        = QtyOf(e.backup0, w.name) - w.quantity ]_vars

====
